---- MODULE Spec2Model ----
(***************************************************************************)
(* Movie API: the in-process movie repository, the pagination service and  *)
(* the single-movie route.                                                 *)
(*                                                                         *)
(* Python values are encoded as follows.                                   *)
(*   str            a sequence of one-character strings                    *)
(*   Optional[T]    None is <<>> and a present value x is <<x>>            *)
(*   List[T]        a sequence                                             *)
(*   dict[int, T]   a function whose DOMAIN is the set of keys             *)
(***************************************************************************)
EXTENDS Integers, Sequences, FiniteSets, TLC

VARIABLES
    movies,        \* MoviesRepository.movies: List[Movie]
    movies_dict,   \* MoviesRepository.movies_dict: dict[int, Movie]
    req_title,     \* the title / q argument of the requests: Optional[str]
    req_genre,     \* the genre argument of the requests: Optional[str]
    req_year,      \* the year argument of the requests: Optional[int]
    call,          \* the last service call: its name and raw arguments
    repo_call,     \* the repository call made by the last service call
    paginated,     \* the PaginatedMovies returned by the last call, if any
    movie,         \* the Optional[MovieRead] returned by the last get_movie
    status,        \* HTTP status of the last GET /movies/{id}, 0 if none
    pool,          \* DatabasePool._pool: Optional[SimpleConnectionPool]
    pools_created, \* how many SimpleConnectionPool objects were constructed
    pool_call,     \* the last DatabasePool call: name, arguments, outcome
    live,          \* ids of the SimpleConnectionPool objects made and not closed
    threads,       \* where each thread stands inside DatabasePool.initialize
    table,         \* the rows of the table movies in the database
    loaded,        \* the rows a constructed MoviesRepository fetched, if any
    store_call,    \* the last MoviesRepository call: connections and queries
    validator,     \* one token validator instance: its class and its cache
    fetches,       \* remote JWKS fetches made by that instance
    fetch_ok,      \* what the last fetch that returned normally brought back
    verify_call,   \* the last verify_token call: token, outcome, claims
    settings,      \* the Settings object returned by get_settings()
    http_fetches,  \* remote JWKS fetches made by the process
    http_fetch_ok, \* whether one of them has returned a usable key
    http_req,      \* the last request or dependency call
    http_resp      \* the response to it

movieVars == <<movies, movies_dict, req_title, req_genre, req_year,
               call, repo_call, paginated, movie, status>>
poolVars == <<pool, pools_created, pool_call, live>>
repoVars == <<table, loaded, store_call>>
validatorVars == <<validator, fetches, fetch_ok, verify_call>>
httpVars == <<settings, http_fetches, http_fetch_ok, http_req, http_resp>>

vars == <<movieVars, poolVars, threads, repoVars, validatorVars, httpVars>>

----------------------------------------------------------------------------
(* Bounds of the model *)

MaxMovies == 3
MaxPage == 3
MaxPools == 2
MaxFetches == 2

(* Program constants *)

MaxPageSize == 100
MinPageSize == 1
MinPage == 1
HTTP_200_OK == 200
HTTP_404_NOT_FOUND == 404
HTTP_401_UNAUTHORIZED == 401
HTTP_403_FORBIDDEN == 403
HTTP_422_UNPROCESSABLE_ENTITY == 422

----------------------------------------------------------------------------
(* Python built-ins *)

None == <<>>
Some(x) == <<x>>

Min(a, b) == IF a < b THEN a ELSE b
Max(a, b) == IF a > b THEN a ELSE b

UpperToLower ==
    ("A" :> "a") @@ ("B" :> "b") @@ ("C" :> "c") @@ ("D" :> "d") @@
    ("E" :> "e") @@ ("F" :> "f") @@ ("G" :> "g") @@ ("H" :> "h") @@
    ("I" :> "i") @@ ("J" :> "j") @@ ("K" :> "k") @@ ("L" :> "l") @@
    ("M" :> "m") @@ ("N" :> "n") @@ ("O" :> "o") @@ ("P" :> "p") @@
    ("Q" :> "q") @@ ("R" :> "r") @@ ("S" :> "s") @@ ("T" :> "t") @@
    ("U" :> "u") @@ ("V" :> "v") @@ ("W" :> "w") @@ ("X" :> "x") @@
    ("Y" :> "y") @@ ("Z" :> "z")

\* str.lower(): every cased character is replaced by its lowercase form
lower(s) ==
    [i \in 1..Len(s) |->
        IF s[i] \in DOMAIN UpperToLower THEN UpperToLower[s[i]] ELSE s[i]]

\* needle in hay, for two str values
str_in(needle, hay) ==
    \E i \in 0..(Len(hay) - Len(needle)) :
        SubSeq(hay, i + 1, i + Len(needle)) = needle

\* one bound of a slice: negative indices count from the end, then clamp
slice_index(i, n) == IF i < 0 THEN Max(i + n, 0) ELSE Min(i, n)

\* s[start:stop] for a list
slice(s, start, stop) ==
    LET lo == slice_index(start, Len(s))
        hi == slice_index(stop, Len(s))
    IN  IF lo < hi THEN SubSeq(s, lo + 1, hi) ELSE <<>>

\* truthiness of an Optional[str]: None and "" are falsy
truthy(opt) == opt # None /\ opt[1] # <<>>

----------------------------------------------------------------------------
(* The movies table: one row per movie_id (primary key).  year and genres  *)
(* are nullable columns.                                                   *)

Row(i) ==
    CASE i = 1 -> [movie_id |-> 1, title |-> <<"T", "o", "y">>,
                   year |-> Some(1995),
                   genres |-> Some(<<<<"W", "a", "r">>, <<"D", "r", "a", "m", "a">>>>)]
      [] i = 2 -> [movie_id |-> 2, title |-> <<"H", "e", "a", "t">>,
                   year |-> Some(1995),
                   genres |-> Some(<<<<"C", "r", "i", "m", "e">>>>)]
      [] i = 3 -> [movie_id |-> 3, title |-> <<"t", "o", "y", "s">>,
                   year |-> None,
                   genres |-> None]
      [] i = 4 -> [movie_id |-> 4, title |-> <<"T", "O", "Y">>,
                   year |-> Some(1996),
                   genres |-> Some(<<<<"d", "r", "a", "m", "a">>>>)]
      [] OTHER -> [movie_id |-> i, title |-> <<"U", "p">>,
                   year |-> Some(1995),
                   genres |-> Some(<<>>)]

\* the tables the repository may be constructed over
Tables == {{Row(i) : i \in ids} : ids \in SUBSET (1..MaxMovies)}

\* the filter arguments the requests are made with
Titles == {None, Some(<<>>), Some(<<"t", "o", "y">>), Some(<<"T", "O", "Y">>)}
Genres == {None, Some(<<>>), Some(<<"D", "r", "a", "m">>), Some(<<"d", "r", "a", "m", "a">>)}
Years == {None, Some(0), Some(1995)}

\* the page, page_size and movie_id arguments the requests are made with
Pages == 0..MaxPage
PageSizes == {0, 2, MaxPageSize + 1}
MovieIds == (-1)..(MaxMovies + 1)

----------------------------------------------------------------------------
(* MoviesRepository *)

\* SELECT ... ORDER BY movie_id: the rows as a list in ascending movie_id
RECURSIVE order_by_movie_id(_)
order_by_movie_id(rows) ==
    IF rows = {} THEN <<>>
    ELSE LET first == CHOOSE r \in rows :
                          \A o \in rows : r.movie_id <= o.movie_id
         IN  <<first>> \o order_by_movie_id(rows \ {first})

\* the Movie built from one fetched row
row_to_movie(row) ==
    [movie_id |-> row.movie_id,
     title |-> row.title,
     year |-> row.year,
     genres |-> IF row.genres # None /\ row.genres[1] # <<>>
                THEN row.genres[1] ELSE <<>>]

\* _load_movies with the rows fetched in descending movie_id
load_movies_descending(rows) ==
    LET fetched == order_by_movie_id(rows)
    IN  [i \in 1..Len(fetched) |->
            row_to_movie(fetched[Len(fetched) + 1 - i])]

\* MoviesRepository._load_movies: the value of self.movies after the load
load_movies(rows) ==
    LET fetched == order_by_movie_id(rows)
    IN  [i \in 1..Len(fetched) |-> row_to_movie(fetched[i])]

\* the index built without the first fetched row
load_movies_dict_skip_first(rows) ==
    LET ms == load_movies(rows)
    IN  [k \in {ms[i].movie_id : i \in 2..Len(ms)} |->
            ms[CHOOSE i \in 2..Len(ms) : ms[i].movie_id = k]]

\* MoviesRepository._load_movies: the value of self.movies_dict after the load
load_movies_dict(rows) ==
    LET ms == load_movies(rows)
    IN  [k \in {ms[i].movie_id : i \in 1..Len(ms)} |->
            ms[CHOOSE i \in 1..Len(ms) :
                   /\ ms[i].movie_id = k
                   /\ \A j \in (i + 1)..Len(ms) : ms[j].movie_id # k]]

\* the genre condition with the label not lowercased
genre_matches_case_sensitive(m, genre_lower) ==
    \E k \in 1..Len(m.genres) : str_in(genre_lower, m.genres[k])

\* the three conditions of the comprehensions of _filter_movies
title_matches(m, title_lower) == str_in(title_lower, lower(m.title))

genre_matches(m, genre_lower) ==
    \E k \in 1..Len(m.genres) : str_in(genre_lower, lower(m.genres[k]))
year_matches(m, year) == m.year = year

\* _filter_movies with the year filter applied only when the year is truthy
filter_movies_year_truthy(ms, title, genre, year) ==
    LET r1 == IF truthy(title)
              THEN LET title_lower == lower(title[1])
                   IN  SelectSeq(ms, LAMBDA m : title_matches(m, title_lower))
              ELSE ms
        r2 == IF truthy(genre)
              THEN LET genre_lower == lower(genre[1])
                   IN  SelectSeq(r1, LAMBDA m : genre_matches(m, genre_lower))
              ELSE r1
        r3 == IF year # None /\ year[1] # 0
              THEN SelectSeq(r2, LAMBDA m : year_matches(m, year))
              ELSE r2
    IN  r3

\* MoviesRepository._filter_movies
filter_movies(ms, title, genre, year) ==
    LET r1 == IF truthy(title)
              THEN LET title_lower == lower(title[1])
                   IN  SelectSeq(ms, LAMBDA m : title_matches(m, title_lower))
              ELSE ms
        r2 == IF truthy(genre)
              THEN LET genre_lower == lower(genre[1])
                   IN  SelectSeq(r1, LAMBDA m : genre_matches(m, genre_lower))
              ELSE r1
        r3 == IF year # None
              THEN SelectSeq(r2, LAMBDA m : year_matches(m, year))
              ELSE r2
    IN  r3

\* list_movies with the page taken as 0-based
list_movies_zero_based(ms, page, page_size, title, genre, year) ==
    LET filtered == filter_movies(ms, title, genre, year)
        start_idx == page * page_size
        end_idx == start_idx + page_size
    IN  [items |-> slice(filtered, start_idx, end_idx),
         total_items |-> Len(filtered)]

\* list_movies counting the items of the page instead of the filtered list
list_movies_page_total(ms, page, page_size, title, genre, year) ==
    LET filtered == filter_movies(ms, title, genre, year)
        start_idx == (page - 1) * page_size
        end_idx == start_idx + page_size
        items == slice(filtered, start_idx, end_idx)
    IN  [items |-> items, total_items |-> Len(items)]

\* MoviesRepository.list_movies: (items, total_items)
list_movies(ms, page, page_size, title, genre, year) ==
    LET filtered == filter_movies(ms, title, genre, year)
        total_items == Len(filtered)
        start_idx == (page - 1) * page_size
        end_idx == start_idx + page_size
    IN  [items |-> slice(filtered, start_idx, end_idx),
         total_items |-> total_items]

\* search_movies that does not forward the genre filter
search_movies_no_genre(ms, query, page, page_size, genre, year) ==
    list_movies(ms, page, page_size, Some(query), None, year)

\* MoviesRepository.search_movies: (items, total_items)
search_movies(ms, query, page, page_size, genre, year) ==
    list_movies(ms, page, page_size, Some(query), genre, year)

\* get_movie_by_id reading movie_id as a 1-based position among the movies
get_movie_by_id_position(dict, movie_id) ==
    IF movie_id \in 1..Cardinality(DOMAIN dict)
    THEN Some(dict[CHOOSE k \in DOMAIN dict :
                       Cardinality({j \in DOMAIN dict : j <= k}) = movie_id])
    ELSE None

\* MoviesRepository.get_movie_by_id: dict.get, None for a missing key
get_movie_by_id(dict, movie_id) ==
    IF movie_id \in DOMAIN dict THEN Some(dict[movie_id]) ELSE None

----------------------------------------------------------------------------
(* MoviesService *)

\* the MovieRead built from a Movie, field by field
movie_read(m) ==
    [movie_id |-> m.movie_id, title |-> m.title,
     year |-> m.year, genres |-> m.genres]

\* page_size = min(page_size, 100); page_size = max(page_size, 1)
clamp_page_size(page_size) == Max(Min(page_size, MaxPageSize), MinPageSize)

\* the page passed on as received
clamp_page_unclamped(page) == page

\* page = max(page, 1)
clamp_page(page) == Max(page, MinPage)

\* total_pages rounded down
total_pages_floor(total_items, page_size) == total_items \div page_size

\* total_pages = (total_items + page_size - 1) // page_size
total_pages_of(total_items, page_size) ==
    (total_items + page_size - 1) \div page_size

\* the PaginatedMovies built from what the repository returned
paginated_movies(found, page, page_size) ==
    [items |-> [i \in 1..Len(found.items) |-> movie_read(found.items[i])],
     page |-> page,
     page_size |-> page_size,
     total_items |-> found.total_items,
     total_pages |-> total_pages_of(found.total_items, page_size)]

\* MoviesService.get_movies: the repository call it makes and what it returns
get_movies(ms, page, page_size, title, genre, year) ==
    LET ps == clamp_page_size(page_size)
        p == clamp_page(page)
        found == list_movies(ms, p, ps, title, genre, year)
    IN  [repo |-> [op |-> "list_movies", page |-> p, page_size |-> ps,
                   title |-> title, genre |-> genre, year |-> year],
         ret |-> paginated_movies(found, p, ps)]

\* MoviesService.search_movies: the repository call it makes and what it returns
service_search_movies(ms, query, page, page_size, genre, year) ==
    LET ps == clamp_page_size(page_size)
        p == clamp_page(page)
        found == search_movies(ms, query, p, ps, genre, year)
    IN  [repo |-> [op |-> "search_movies", page |-> p, page_size |-> ps,
                   title |-> Some(query), genre |-> genre, year |-> year],
         ret |-> paginated_movies(found, p, ps)]

\* MoviesService.get_movie: Optional[MovieRead]; a model instance is truthy
get_movie(dict, movie_id) ==
    LET found == get_movie_by_id(dict, movie_id)
    IN  IF found # None THEN Some(movie_read(found[1])) ELSE None

\* GET /movies/{movie_id}: 404 when the service returns nothing
route_status(found) ==
    IF found = None THEN HTTP_404_NOT_FOUND ELSE HTTP_200_OK

----------------------------------------------------------------------------
(* app/core/database.py: DatabasePool over psycopg2's SimpleConnectionPool *)

\* the (min_connections, max_connections) pairs the calls are made with
PoolSizes == {<<1, 1>>, <<1, 2>>, <<2, 2>>}
\* the connection objects a caller may hold
ConnIds == {1, 2}

\* pool.SimpleConnectionPool(min_connections, max_connections, **params):
\* the connections handed out are `used`, a closed pool serves nothing
SimpleConnectionPool(id, minconn, maxconn) ==
    [id |-> id, minconn |-> minconn, maxconn |-> maxconn,
     used |-> {}, closed |-> FALSE]

\* _pool.getconn(): the first connection not handed out yet
getconn(po) ==
    LET free == (1..po.maxconn) \ po.used
    IN  IF po.closed \/ free = {}
        THEN [pool |-> po, outcome |-> "PoolError", conn |-> 0]
        ELSE LET c == CHOOSE x \in free : \A y \in free : x <= y
             IN  [pool |-> [po EXCEPT !.used = @ \cup {c}],
                  outcome |-> "ok", conn |-> c]

\* _pool.putconn(conn)
putconn(po, conn) ==
    IF po.closed \/ conn \notin po.used
    THEN [pool |-> po, outcome |-> "PoolError"]
    ELSE [pool |-> [po EXCEPT !.used = @ \ {conn}], outcome |-> "ok"]

\* _pool.closeall(): closing the connections may report a psycopg2.Error
closeall(po, closed_ok) ==
    IF po.closed \/ ~closed_ok
    THEN [pool |-> po, outcome |-> "psycopg2.Error"]
    ELSE [pool |-> [po EXCEPT !.used = {}, !.closed = TRUE], outcome |-> "ok"]

\* initialize without the guard on an existing pool
initialize_always(p, created, minconn, maxconn, connect_ok) ==
    IF connect_ok
    THEN [pool |-> Some(SimpleConnectionPool(created + 1, minconn, maxconn)),
          created |-> created + 1, outcome |-> "ok"]
    ELSE [pool |-> p, created |-> created, outcome |-> "psycopg2.Error"]

\* DatabasePool.initialize; p is cls._pool
initialize(p, created, minconn, maxconn, connect_ok) ==
    IF p # None
    THEN [pool |-> p, created |-> created, outcome |-> "ok"]
    ELSE IF connect_ok
    THEN [pool |-> Some(SimpleConnectionPool(created + 1, minconn, maxconn)),
          created |-> created + 1, outcome |-> "ok"]
    ELSE [pool |-> None, created |-> created, outcome |-> "psycopg2.Error"]

\* the threads that may call DatabasePool.initialize at the same time
Threads == {"t1", "t2"}
NoThreads == [t \in Threads |-> "idle"]

\* DatabasePool.initialize, first step: the test of cls._pool; TRUE when the
\* call returns early
initialize_skips(p) == p # None

\* DatabasePool.initialize, second step: the pool is constructed and bound to
\* cls._pool, whatever cls._pool holds by then
initialize_assign(p, created, minconn, maxconn, connect_ok) ==
    IF connect_ok
    THEN [pool |-> Some(SimpleConnectionPool(created + 1, minconn, maxconn)),
          created |-> created + 1, outcome |-> "ok"]
    ELSE [pool |-> p, created |-> created, outcome |-> "psycopg2.Error"]

\* get_connection creating a default pool on demand
get_connection_lazy(p) ==
    LET r == getconn(IF p = None THEN SimpleConnectionPool(0, 1, 1) ELSE p[1])
    IN  [pool |-> Some(r.pool), outcome |-> r.outcome, conn |-> r.conn]

\* DatabasePool.get_connection
get_connection(p) ==
    IF p = None
    THEN [pool |-> p, outcome |-> "RuntimeError", conn |-> 0]
    ELSE LET r == getconn(p[1])
         IN  [pool |-> Some(r.pool), outcome |-> r.outcome, conn |-> r.conn]

\* DatabasePool.return_connection
return_connection(p, conn) ==
    IF p = None
    THEN [pool |-> p, outcome |-> "RuntimeError"]
    ELSE LET r == putconn(p[1], conn)
         IN  [pool |-> Some(r.pool), outcome |-> r.outcome]

\* DatabasePool.close: the psycopg2.Error of closeall is logged, not raised,
\* and in that case the assignment cls._pool = None is skipped
close(p, closed_ok) ==
    IF p = None
    THEN [pool |-> p, outcome |-> "ok"]
    ELSE LET r == closeall(p[1], closed_ok)
         IN  IF r.outcome = "ok"
             THEN [pool |-> None, outcome |-> "ok"]
             ELSE [pool |-> Some(r.pool), outcome |-> "ok"]

\* DatabasePool.is_initialized
is_initialized(p) == p # None

NoPoolCall == [op |-> "none", outcome |-> "none", conn |-> 0, arg |-> 0,
               minconn |-> 0, maxconn |-> 0, closed_ok |-> TRUE]

----------------------------------------------------------------------------
(* app/repositories/movies_repository.py: the repository over the pool,   *)
(* and scripts/load_movies.py: the bulk loader of the table               *)

\* what cur.execute / fetchall / Movie(...) of _load_movies may do: return,
\* raise a psycopg2.Error, raise another exception (a row Movie rejects)
DbOutcomes == {"ok", "psycopg2.Error", "ValidationError"}

\* the connections a pool has handed out
used_connections(p) == IF p = None THEN {} ELSE p[1].used

\* one MoviesRepository call: how it ended, what the database did (db), the
\* DatabasePool.get_connection calls that returned a connection (acquired),
\* the DatabasePool.return_connection calls (released), the statements
\* executed (queries), the connections it took and did not give back (held)
StoreCall(op, outcome, db, acquired, released, queries, held) ==
    [op |-> op, outcome |-> outcome, db |-> db, acquired |-> acquired,
     released |-> released, queries |-> queries, held |-> held]

NoStoreCall == StoreCall("none", "none", "none", 0, 0, 0, {})

\* get_movie_by_id, list_movies and search_movies read self.movies_dict and
\* self.movies: they call neither DatabasePool nor a cursor
in_memory(op) == StoreCall(op, "ok", "none", 0, 0, 0, {})

\* _load_movies with the finally clause releasing only after a successful
\* query
load_from_pool_release_on_success(p, db) ==
    LET g == get_connection(p)
        got == g.outcome = "ok"
        f == IF got /\ db = "ok"
             THEN return_connection(g.pool, g.conn)
             ELSE [pool |-> g.pool, outcome |-> "none"]
    IN  [pool |-> f.pool,
         last |-> IF got /\ db = "ok"
                  THEN Some([NoPoolCall EXCEPT !.op = "return_connection",
                                               !.outcome = f.outcome,
                                               !.arg = g.conn])
                  ELSE Some([NoPoolCall EXCEPT !.op = "get_connection",
                                               !.outcome = g.outcome,
                                               !.conn = g.conn]),
         call |-> StoreCall("construct", IF got THEN db ELSE g.outcome, db,
                            IF got THEN 1 ELSE 0,
                            IF got /\ db = "ok" THEN 1 ELSE 0,
                            IF got THEN 1 ELSE 0,
                            used_connections(f.pool) \ used_connections(p))]

\* MoviesRepository._load_movies: conn = None; get_connection; one SELECT;
\* except psycopg2.Error: raise; finally: if conn: return_connection(conn).
\* conn is still None when get_connection itself raised.
load_from_pool(p, db) ==
    LET g == get_connection(p)
        got == g.outcome = "ok"
        f == IF got
             THEN return_connection(g.pool, g.conn)
             ELSE [pool |-> g.pool, outcome |-> "none"]
    IN  [pool |-> f.pool,
         last |-> IF got
                  THEN Some([NoPoolCall EXCEPT !.op = "return_connection",
                                               !.outcome = f.outcome,
                                               !.arg = g.conn])
                  ELSE Some([NoPoolCall EXCEPT !.op = "get_connection",
                                               !.outcome = g.outcome,
                                               !.conn = g.conn]),
         call |-> StoreCall("construct", IF got THEN db ELSE g.outcome, db,
                            IF got THEN 1 ELSE 0,
                            IF got THEN 1 ELSE 0,
                            IF got THEN 1 ELSE 0,
                            used_connections(f.pool) \ used_connections(p))]

\* MoviesRepository.__init__: RuntimeError unless DatabasePool.is_initialized(),
\* then self._load_movies()
construct(p, db) ==
    IF ~is_initialized(p)
    THEN [pool |-> p, last |-> None,
          call |-> StoreCall("construct", "RuntimeError", "none",
                             0, 0, 0, {})]
    ELSE load_from_pool(p, db)

\* load_movies of the bulk loader, one row: INSERT ... ON CONFLICT (movie_id)
\* DO UPDATE SET title, year, genres
upsert(rows, row) ==
    {r \in rows : r.movie_id # row.movie_id} \cup {row}

----------------------------------------------------------------------------
(* app/core/token_validator.py and app/core/keycloak.py: token validators *)

\* JSON Web Keys published by the identity provider
K1 == [kid |-> "k1", kty |-> "RSA", use |-> "sig"]
K2 == [kid |-> "k2", kty |-> "RSA", use |-> "sig"]
KEC == [kid |-> "ec", kty |-> "EC", use |-> "sig"]
KENC == [kid |-> "enc", kty |-> "RSA", use |-> "enc"]

\* a JSON object answered by the JWKS endpoint: its "keys" member, if it
\* has one, and whether it has other members
JwksDocument(keys, other) == [keys |-> keys, other |-> other]
Documents ==
    {JwksDocument(None, FALSE),               \* {}
     JwksDocument(Some(<<>>), FALSE),         \* {"keys": []}
     JwksDocument(Some(<<K1>>), FALSE),
     JwksDocument(Some(<<KEC, K1>>), FALSE),
     JwksDocument(Some(<<K2>>), FALSE),
     JwksDocument(Some(<<KENC, K1>>), FALSE),
     JwksDocument(Some(<<K2, K1>>), FALSE)}
\* what urlopen / requests.get bring back: None when the request fails
Responses == {None} \cup {Some(d) : d \in Documents}

\* bool(d) for a dict d: the empty dict is falsy
dict_truthy(d) == d.keys # None \/ d.other
\* d.get("keys", []) for a dict d
get_keys(d) == IF d.keys = None THEN <<>> ELSE d.keys[1]

\* settings.keycloak_client_id
ClientId == "movie-api-client"

\* a JWT: the key id of its header, the key that signed it, its claims
Token(name) ==
    LET good == [name |-> name, wellformed |-> TRUE, kid |-> "k1",
                 sig |-> "k1", expired |-> FALSE, sub |-> TRUE,
                 azp |-> ClientId, aud |-> "account", token_use |-> "access"]
    IN  CASE name = "user" -> good
          [] name = "service" -> [good EXCEPT !.azp = "", !.aud = ClientId]
          [] name = "other_client" -> [good EXCEPT !.azp = "other-client"]
          [] name = "expired" -> [good EXCEPT !.expired = TRUE]
          [] name = "forged" -> [good EXCEPT !.sig = ""]
          [] name = "no_kid" -> [good EXCEPT !.kid = ""]
          [] name = "rotated" -> [good EXCEPT !.kid = "k2", !.sig = "k2"]
          [] name = "id_token" -> [good EXCEPT !.token_use = "id"]
          [] name = "no_sub" -> [good EXCEPT !.sub = FALSE]
          [] name = "other_kid" -> [good EXCEPT !.kid = "k2"]
          [] OTHER -> [good EXCEPT !.wellformed = FALSE, !.kid = "",
                                   !.sig = ""]
TokenNames == {"user", "service", "other_client", "expired", "forged",
               "no_kid", "rotated", "id_token", "no_sub", "other_kid",
               "garbage"}
Tokens == {Token(n) : n \in TokenNames}

\* jwt.decode(token, key, algorithms=["RS256"], options={"verify_aud": False}):
\* the signature and the expiry are verified, the audience is not
decode(token, key) ==
    IF ~token.wellformed THEN "JWTError"
    ELSE IF key.kty # "RSA" THEN "Exception"
    ELSE IF token.sig # key.kid THEN "JWTError"
    ELSE IF token.expired THEN "JWTError"
    ELSE "ok"

\* the key lookup falling back to the first key of the set
key_with_kid_or_first(keys, kid) ==
    IF \E i \in 1..Len(keys) : keys[i].kid = kid
    THEN CHOOSE i \in 1..Len(keys) :
             keys[i].kid = kid /\ \A j \in 1..(i - 1) : keys[j].kid # kid
    ELSE IF keys = <<>> THEN 0 ELSE 1

\* for key in jwks.get("keys", []): the index of the first key whose kid is
\* kid, 0 if there is none
key_with_kid(keys, kid) ==
    IF \E i \in 1..Len(keys) : keys[i].kid = kid
    THEN CHOOSE i \in 1..Len(keys) :
             keys[i].kid = kid /\ \A j \in 1..(i - 1) : keys[j].kid # kid
    ELSE 0

\* is the key an RSA signing key
is_signing_key(key) == key.use = "sig" /\ key.kty = "RSA"

\* for key in jwks["keys"]: the index of the first RSA signing key, 0 if
\* there is none
signing_key(keys) ==
    IF \E i \in 1..Len(keys) : is_signing_key(keys[i])
    THEN CHOOSE i \in 1..Len(keys) :
             /\ is_signing_key(keys[i])
             /\ \A j \in 1..(i - 1) : ~is_signing_key(keys[j])
    ELSE 0

\* the result of a call on a validator object: the object after the call,
\* whether the call made a remote fetch ("no") and how the fetching method
\* ended ("raised", "returned"), and how the call ended
Returned(v, fetched, outcome) ==
    [validator |-> v, fetched |-> fetched, outcome |-> outcome]

\* _fetch_public_key without the look at the cached key
fetch_public_key_always(v, response) ==
    IF response = None \/ get_keys(response[1]) = <<>>
       \/ get_keys(response[1])[1].kty # "RSA"
    THEN Returned(v, "raised", "Exception")
    ELSE Returned([v EXCEPT !.cache = Some(get_keys(response[1])[1])],
                  "returned", "ok")

\* _fetch_public_key remembering a failed fetch in the cache
fetch_public_key_negative_cache(v, response) ==
    IF v.cache # None
    THEN Returned(v, "no", "ok")
    ELSE IF response = None \/ get_keys(response[1]) = <<>>
            \/ get_keys(response[1])[1].kty # "RSA"
    THEN Returned([v EXCEPT !.cache = Some(KEC)], "raised", "Exception")
    ELSE Returned([v EXCEPT !.cache = Some(get_keys(response[1])[1])],
                  "returned", "ok")

\* KeycloakTokenValidator._fetch_public_key: the first key of the document
\* is converted to PEM and kept; RSAKey.from_jwk refuses a non-RSA key
fetch_public_key(v, response) ==
    IF v.cache # None
    THEN Returned(v, "no", "ok")
    ELSE IF response = None
    THEN Returned(v, "raised", "Exception")
    ELSE IF get_keys(response[1]) = <<>>
    THEN Returned(v, "raised", "Exception")
    ELSE LET key_data == get_keys(response[1])[1]
         IN  IF key_data.kty # "RSA"
             THEN Returned(v, "raised", "Exception")
             ELSE Returned([v EXCEPT !.cache = Some(key_data)], "returned", "ok")

\* KeycloakTokenValidator.verify_token of token_validator.py
keycloak_verify_token(v, token, response) ==
    LET f == fetch_public_key(v, response)
    IN  IF f.outcome # "ok"
        THEN f
        ELSE LET d == decode(token, f.validator.cache[1])
             IN  IF d # "ok"
                 THEN [f EXCEPT !.outcome = d]
                 ELSE IF token.azp # ClientId /\ token.aud # ClientId
                 THEN [f EXCEPT !.outcome = "JWTError"]
                 ELSE f

\* CognitoTokenValidator._fetch_jwks: the document is kept as it came
fetch_jwks(v, response) ==
    IF v.cache # None /\ dict_truthy(v.cache[1])
    THEN Returned(v, "no", "ok")
    ELSE IF response = None
    THEN Returned(v, "raised", "Exception")
    ELSE Returned([v EXCEPT !.cache = response], "returned", "ok")

\* CognitoTokenValidator.verify_token
cognito_verify_token(v, token, response) ==
    IF ~token.wellformed \/ token.kid = ""
    THEN Returned(v, "no", "JWTError")
    ELSE LET f == fetch_jwks(v, response)
         IN  IF f.outcome # "ok"
             THEN f
             ELSE LET keys == get_keys(f.validator.cache[1])
                      i == key_with_kid(keys, token.kid)
                  IN  IF i = 0
                      THEN [f EXCEPT !.outcome = "JWTError"]
                      ELSE IF decode(token, keys[i]) # "ok"
                      THEN [f EXCEPT !.outcome = decode(token, keys[i])]
                      ELSE IF token.token_use # "access"
                      THEN [f EXCEPT !.outcome = "JWTError"]
                      ELSE f

\* KeycloakTokenValidator.get_public_key of keycloak.py: the first RSA
\* signing key, else the first key; the RSA numbers of the key are read
get_public_key(v, response) ==
    IF v.cache # None
    THEN Returned(v, "no", "ok")
    ELSE IF response = None
    THEN Returned(v, "raised", "Exception")
    ELSE IF get_keys(response[1]) = <<>>
    THEN Returned(v, "raised", "Exception")
    ELSE LET keys == get_keys(response[1])
             i == signing_key(keys)
             key_data == IF i = 0 THEN keys[1] ELSE keys[i]
         IN  IF key_data.kty # "RSA"
             THEN Returned(v, "raised", "Exception")
             ELSE Returned([v EXCEPT !.cache = Some(key_data)], "returned", "ok")

\* KeycloakTokenValidator.verify_token of keycloak.py: every failure is
\* raised as JWTError
singleton_verify_token(v, token, response) ==
    LET f == get_public_key(v, response)
    IN  IF f.outcome # "ok"
        THEN [f EXCEPT !.outcome = "JWTError"]
        ELSE IF decode(token, f.validator.cache[1]) # "ok"
        THEN [f EXCEPT !.outcome = "JWTError"]
        ELSE IF ~token.sub
        THEN [f EXCEPT !.outcome = "JWTError"]
        ELSE IF token.azp # ClientId /\ token.aud # ClientId
        THEN [f EXCEPT !.outcome = "JWTError"]
        ELSE f

\* validator.verify_token(token), by the class of the validator
verify_token(v, token, response) ==
    CASE v.kind = "cognito" -> cognito_verify_token(v, token, response)
      [] v.kind = "singleton" -> singleton_verify_token(v, token, response)
      [] OTHER -> keycloak_verify_token(v, token, response)

\* KeycloakTokenValidator() / CognitoTokenValidator(): nothing cached
NewValidator(kind) == [kind |-> kind, cache |-> None]
ValidatorKinds == {"keycloak", "cognito", "singleton"}

----------------------------------------------------------------------------
(* app/deps/auth.py, app/core/security.py and the routes of the API *)

\* str.split(): the maximal runs of non-whitespace characters, in order
IsSpace(c) == c \in {" ", "\t"}
RECURSIVE split(_)
split(s) ==
    IF s = <<>> THEN <<>>
    ELSE IF IsSpace(Head(s)) THEN split(Tail(s))
    ELSE LET n == CHOOSE k \in 1..Len(s) :
                      /\ \A i \in 1..k : ~IsSpace(s[i])
                      /\ (k = Len(s) \/ IsSpace(s[k + 1]))
         IN  <<SubSeq(s, 1, n)>> \o split(SubSeq(s, n + 1, Len(s)))

\* the compact serialization of a JWT, one character for each token
TokenText(name) ==
    CASE name = "user" -> <<"u">>
      [] name = "service" -> <<"s">>
      [] name = "other_client" -> <<"o">>
      [] name = "expired" -> <<"x">>
      [] name = "forged" -> <<"f">>
      [] name = "no_kid" -> <<"n">>
      [] name = "rotated" -> <<"r">>
      [] name = "id_token" -> <<"i">>
      [] name = "no_sub" -> <<"b">>
      [] name = "other_kid" -> <<"k">>
      [] OTHER -> <<"?">>

\* the JWT a string deserializes to; any other string is not a JWT
parse_jwt(text) ==
    LET names == {n \in TokenNames \ {"garbage"} : TokenText(n) = text}
    IN  IF names = {} THEN Token("garbage")
        ELSE Token(CHOOSE n \in names : TRUE)

Key == <<"K", "e", "y">>
Bearer == <<"B", "e", "a", "r", "e", "r">>
Basic == <<"B", "a", "s", "i", "c">>
XApiKeys ==
    {None, Some(<<>>), Some(Key), Some(<<"k", "e", "y">>),
     Some(Key \o <<" ">>)}
Authorizations ==
    {None, Some(<<>>), Some(Bearer),
     Some(Basic \o <<" ">> \o TokenText("user")),
     Some(lower(Bearer) \o <<" ">> \o TokenText("user")),
     Some(Bearer \o <<" ">> \o TokenText("user")),
     Some(Bearer \o <<" ">> \o TokenText("other_client")),
     Some(Bearer \o <<" ">> \o TokenText("expired"))}

\* the Settings objects the process may run with
Configured(auth_enabled, api_key, auth_provider, cognito_user_pool_id) ==
    [auth_enabled |-> auth_enabled, api_key |-> api_key,
     auth_provider |-> auth_provider,
     cognito_user_pool_id |-> cognito_user_pool_id]
Configurations ==
    {Configured(TRUE, Some(Key), <<"k", "e", "y", "c", "l", "o", "a", "k">>,
                None),
     Configured(TRUE, None, <<"C", "o", "g", "n", "i", "t", "o">>,
                Some(<<"p">>)),
     Configured(TRUE, Some(<<>>), <<"c", "o", "g", "n", "i", "t", "o">>,
                None),
     Configured(TRUE, Some(Key), <<"o", "k", "t", "a">>, None),
     Configured(FALSE, Some(Key), <<"k", "e", "y", "c", "l", "o", "a", "k">>,
                None)}

\* what a dependency or a route produces: status 0 stands for a dependency
\* that returned without raising an HTTPException
Answer(status_code, detail, fetched, token_accepted, page_size) ==
    [status |-> status_code, detail |-> detail, fetched |-> fetched,
     token_accepted |-> token_accepted, page_size |-> page_size]
Passed == Answer(0, "", "no", FALSE, 0)
HTTPException(status_code, detail) ==
    Answer(status_code, detail, "no", FALSE, 0)

\* verify_api_key comparing the keys without regard to letter case
verify_api_key_ignore_case(s, x_api_key) ==
    IF ~truthy(s.api_key) THEN Passed
    ELSE IF ~truthy(x_api_key)
    THEN HTTPException(HTTP_401_UNAUTHORIZED, "Missing X-API-Key header")
    ELSE IF lower(x_api_key[1]) # lower(s.api_key[1])
    THEN HTTPException(HTTP_401_UNAUTHORIZED, "Invalid API key")
    ELSE Passed

\* deps/auth.py verify_api_key; s is get_settings()
verify_api_key(s, x_api_key) ==
    IF ~truthy(s.api_key) THEN Passed
    ELSE IF ~truthy(x_api_key)
    THEN HTTPException(HTTP_401_UNAUTHORIZED, "Missing X-API-Key header")
    ELSE IF x_api_key # s.api_key
    THEN HTTPException(HTTP_401_UNAUTHORIZED, "Invalid API key")
    ELSE Passed

\* core/security.py validate_api_key
validate_api_key(x_api_key, required_key) ==
    IF ~truthy(required_key) THEN Passed
    ELSE IF ~truthy(x_api_key)
    THEN HTTPException(HTTP_401_UNAUTHORIZED, "Missing X-API-Key header")
    ELSE IF x_api_key # required_key
    THEN HTTPException(HTTP_403_FORBIDDEN, "Invalid API key")
    ELSE Passed

\* get_token_validator(): the class of the validator it constructs, "None"
\* when authentication is disabled, "ValueError" when it raises
get_token_validator(s) ==
    IF ~s.auth_enabled THEN "None"
    ELSE IF lower(s.auth_provider) = <<"c", "o", "g", "n", "i", "t", "o">>
    THEN IF ~truthy(s.cognito_user_pool_id) THEN "ValueError" ELSE "cognito"
    ELSE IF lower(s.auth_provider) = <<"k", "e", "y", "c", "l", "o", "a", "k">>
    THEN "keycloak"
    ELSE "ValueError"

\* deps/auth.py verify_bearer_token; response is what the identity provider
\* answers if the validator fetches its keys
verify_bearer_token(s, authorization, response) ==
    IF ~s.auth_enabled THEN Passed
    ELSE IF ~truthy(authorization)
    THEN HTTPException(HTTP_401_UNAUTHORIZED, "Missing Authorization header")
    ELSE LET parts == split(authorization[1])
         IN  IF Len(parts) # 2 \/ lower(parts[1]) # lower(Bearer)
             THEN HTTPException(HTTP_401_UNAUTHORIZED,
                                "Invalid Authorization header format")
             ELSE LET kind == get_token_validator(s)
                  IN  IF kind = "ValueError"
                      THEN HTTPException(HTTP_401_UNAUTHORIZED,
                                         "Invalid or expired token")
                      ELSE IF kind = "None"
                      THEN Passed
                      ELSE LET r == verify_token(NewValidator(kind),
                                                 parse_jwt(parts[2]), response)
                           IN  IF r.outcome = "ok"
                               THEN Answer(0, "", r.fetched, TRUE, 0)
                               ELSE Answer(HTTP_401_UNAUTHORIZED,
                                           "Invalid or expired token",
                                           r.fetched, FALSE, 0)

\* Query(20, ge=1, le=100) of the page_size parameter of the two routes
page_size_ge == 1
page_size_le == 100

\* GET /health: served without credentials
health_check == Answer(HTTP_200_OK, "", "no", FALSE, 0)

\* the q and movie_id of the requests made to the search and detail routes
RequestQuery == <<"t", "o", "y">>
RequestMovieId == 1
Endpoints == {"movies", "search", "movie", "health"}

\* one request to the application: the router of the movie routes runs
\* verify_bearer_token before the parameters of the route are validated
handle_request(s, ms, md, endpoint, page_size, authorization, response) ==
    IF endpoint = "health" THEN health_check
    ELSE LET a == verify_bearer_token(s, authorization, response)
         IN  IF a.status # 0 THEN a
             ELSE IF endpoint = "movie"
             THEN [a EXCEPT !.status =
                       route_status(get_movie(md, RequestMovieId))]
             ELSE IF page_size < page_size_ge \/ page_size > page_size_le
             THEN [a EXCEPT !.status = HTTP_422_UNPROCESSABLE_ENTITY]
             ELSE IF endpoint = "movies"
             THEN [a EXCEPT !.status = HTTP_200_OK,
                            !.page_size =
                                get_movies(ms, 1, page_size,
                                           None, None, None).ret.page_size]
             ELSE [a EXCEPT !.status = HTTP_200_OK,
                            !.page_size =
                                service_search_movies(ms, RequestQuery,
                                    1, page_size,
                                    None, None).ret.page_size]

----------------------------------------------------------------------------
(* Values of the variables of a component that has served no call yet *)

NoValidator == NewValidator("none")
NoToken == [Token("garbage") EXCEPT !.name = "none"]
NoVerifyCall == [op |-> "none", token |-> NoToken, response |-> None,
                 outcome |-> "none", fetched |-> "no"]

\* the movie service: the repository holds the full table, no request made
NoCall == [op |-> "none", page |-> 0, page_size |-> 0, movie_id |-> 0]
NoRepoCall == [op |-> "none", page |-> 0, page_size |-> 0,
               title |-> None, genre |-> None, year |-> None]

\* the repository call of the lifespan: MoviesRepository() over the started
\* pool
StartupCall == construct(initialize(None, 0, 1, 2, TRUE).pool, "ok").call

\* the repository as MoviesRepository() leaves it over the table rows
Constructed(rows) ==
    /\ table = rows
    /\ loaded = Some(rows)
    /\ store_call = StartupCall
    /\ movies = load_movies(rows)
    /\ movies_dict = load_movies_dict(rows)

MoviesAtRest ==
    /\ Constructed({Row(i) : i \in 1..MaxMovies})
    /\ req_title = None
    /\ req_genre = None
    /\ req_year = None
    /\ call = NoCall
    /\ repo_call = NoRepoCall
    /\ paginated = None
    /\ movie = None
    /\ status = 0

\* the pool as the lifespan of the application leaves it at startup
PoolStarted ==
    LET r == initialize(None, 0, 1, 2, TRUE)
    IN  /\ pool = r.pool
        /\ pools_created = r.created
        /\ pool_call = [NoPoolCall EXCEPT !.op = "initialize",
                                           !.outcome = r.outcome,
                                           !.minconn = 1, !.maxconn = 2]
        /\ live = {r.pool[1].id}
        /\ threads = NoThreads

\* no validator instance exists between two requests
ValidatorAtRest ==
    /\ validator = NoValidator
    /\ fetches = 0
    /\ fetch_ok = None
    /\ verify_call = NoVerifyCall

\* Settings() with every field at its default
DefaultSettings ==
    [auth_enabled |-> TRUE,
     api_key |-> None,
     auth_provider |-> <<"k", "e", "y", "c", "l", "o", "a", "k">>,
     cognito_user_pool_id |-> None]

NoRequest == [op |-> "none", endpoint |-> "", x_api_key |-> None,
              authorization |-> None, page_size |-> 0]
NoResponse == Passed

\* the process has served no request
HttpAtRest ==
    /\ settings = DefaultSettings
    /\ http_fetches = 0
    /\ http_fetch_ok = FALSE
    /\ http_req = NoRequest
    /\ http_resp = NoResponse

----------------------------------------------------------------------------
(* The state machine of the movie service *)

\* The repository has been constructed over some table and no request has
\* been served; the filter arguments of the requests to come are drawn here.
Init ==
    \E rows \in Tables :
        /\ Constructed(rows)
        /\ req_title \in Titles
        /\ req_genre \in Genres
        /\ req_year \in Years
        /\ call = NoCall
        /\ repo_call = NoRepoCall
        /\ paginated = None
        /\ movie = None
        /\ status = 0
        /\ PoolStarted
        /\ ValidatorAtRest
        /\ HttpAtRest

\* a call of MoviesService.get_movies
GetMovies(page, page_size) ==
    LET r == get_movies(movies, page, page_size,
                        req_title, req_genre, req_year)
    IN  /\ call' = [op |-> "get_movies", page |-> page,
                    page_size |-> page_size, movie_id |-> 0]
        /\ repo_call' = r.repo
        /\ paginated' = Some(r.ret)
        /\ movie' = None
        /\ status' = 0
        /\ store_call' = in_memory(r.repo.op)
        /\ UNCHANGED <<movies, movies_dict, req_title, req_genre, req_year>>
        /\ UNCHANGED <<table, loaded>>
        /\ UNCHANGED <<poolVars, threads, validatorVars, httpVars>>

\* a call of MoviesService.search_movies; the query is a required str
SearchMovies(page, page_size) ==
    /\ req_title # None
    /\ LET r == service_search_movies(movies, req_title[1], page, page_size,
                                      req_genre, req_year)
       IN  /\ call' = [op |-> "search_movies", page |-> page,
                       page_size |-> page_size, movie_id |-> 0]
           /\ repo_call' = r.repo
           /\ paginated' = Some(r.ret)
           /\ movie' = None
           /\ status' = 0
           /\ store_call' = in_memory(r.repo.op)
    /\ UNCHANGED <<movies, movies_dict, req_title, req_genre, req_year>>
    /\ UNCHANGED <<table, loaded>>
    /\ UNCHANGED <<poolVars, threads, validatorVars, httpVars>>

\* a request GET /movies/{movie_id}
GetMovie(movie_id) ==
    LET found == get_movie(movies_dict, movie_id)
    IN  /\ call' = [op |-> "get_movie", page |-> 0, page_size |-> 0,
                    movie_id |-> movie_id]
        /\ repo_call' = NoRepoCall
        /\ paginated' = None
        /\ movie' = found
        /\ status' = route_status(found)
        /\ store_call' = in_memory("get_movie_by_id")
        /\ UNCHANGED <<movies, movies_dict, req_title, req_genre, req_year>>
        /\ UNCHANGED <<table, loaded>>
        /\ UNCHANGED <<poolVars, threads, validatorVars, httpVars>>

Next ==
    \/ \E page \in Pages, page_size \in PageSizes : GetMovies(page, page_size)
    \/ \E page \in Pages, page_size \in PageSizes : SearchMovies(page, page_size)
    \/ \E movie_id \in MovieIds : GetMovie(movie_id)

Spec == Init /\ [][Next]_vars

----------------------------------------------------------------------------
(* Vocabulary of the properties, written without the operators above *)

Paged == call.op \in {"get_movies", "search_movies"}
Result == paginated[1]

\* the least n with n * b >= a, for a >= 0 and b >= 1
Ceil(a, b) == CHOOSE n \in 0..a : n * b >= a /\ (n = 0 \/ (n - 1) * b < a)

\* two characters that differ at most in letter case
SameLetter(a, b) ==
    \/ a = b
    \/ a \in DOMAIN UpperToLower /\ UpperToLower[a] = b
    \/ b \in DOMAIN UpperToLower /\ UpperToLower[b] = a

\* needle occurs in hay as a contiguous run, letter case ignored
ContainsIgnoreCase(hay, needle) ==
    \E i \in 0..(Len(hay) - Len(needle)) :
        \A j \in 1..Len(needle) : SameLetter(hay[i + j], needle[j])

TitleOk(m) ==
    req_title = None \/ ContainsIgnoreCase(m.title, req_title[1])
YearOk(m) ==
    req_year = None \/ (m.year # None /\ m.year[1] = req_year[1])
SubstringGenre(m, g) ==
    \E k \in 1..Len(m.genres) : ContainsIgnoreCase(m.genres[k], g)
MemberGenre(m, g) ==
    \E k \in 1..Len(m.genres) : m.genres[k] = g
GenreOk(m) ==
    req_genre = None \/ req_genre[1] = <<>> \/ SubstringGenre(m, req_genre[1])
Satisfies(m) == TitleOk(m) /\ GenreOk(m) /\ YearOk(m)

\* the stored movies, and those of them that satisfy the filters
Stored == {movies[i] : i \in 1..Len(movies)}
Matching == {m \in Stored : Satisfies(m)}

\* the movies of S in ascending movie_id
Ascending(S) ==
    [k \in 1..Cardinality(S) |->
        CHOOSE m \in S :
            Cardinality({o \in S : o.movie_id < m.movie_id}) = k - 1]

\* the result lists every selected movie: first page, page not shorter
\* than the store
FullListing ==
    Paged /\ Result.page = 1 /\ Result.page_size >= Len(movies)
Listed(m) == \E k \in 1..Len(Result.items) : Result.items[k] = m

----------------------------------------------------------------------------
(* Properties *)

\* C1: get_movies and search_movies report page_size = min(max(page_size, 1),
\* 100) and page = max(page, 1), whatever integers they are called with, and
\* pass exactly these two values to the repository.
C1_Clamping ==
    Paged =>
        /\ Result.page_size = Min(Max(call.page_size, 1), 100)
        /\ Result.page = Max(call.page, 1)
        /\ repo_call.page_size = Result.page_size
        /\ repo_call.page = Result.page

C1_Witness ==
    /\ Paged
    /\ call.page_size > 100 /\ Result.page_size = 100
    /\ call.page < 1 /\ Result.page = 1

\* C2: total_pages is ceil(total_items / page_size) for the effective
\* page_size when total_items > 0, and 0 when total_items = 0.
C2_TotalPages ==
    Paged =>
        Result.total_pages =
            IF Result.total_items = 0 THEN 0
            ELSE Ceil(Result.total_items, Result.page_size)

C2_Witness ==
    /\ Paged
    /\ Result.total_items > Result.page_size
    /\ Result.total_items % Result.page_size # 0
    /\ Result.total_pages * Result.page_size > Result.total_items

\* C3: the number of items of a result is min(page_size, max(0, total_items
\* - (page - 1) * page_size)) for the effective page and page_size.
C3_PageLength ==
    Paged =>
        Len(Result.items) =
            Min(Result.page_size,
                Max(0, Result.total_items
                       - (Result.page - 1) * Result.page_size))

C3_Witness ==
    /\ Paged
    /\ Result.page > 1
    /\ Len(Result.items) > 0
    /\ Len(Result.items) < Result.page_size

\* C4: total_items is the number of stored movies satisfying the filters,
\* whatever the page and page_size; a page beyond the data has no item and
\* that same total_items.
C4_TotalItems ==
    Paged =>
        /\ Result.total_items = Cardinality(Matching)
        /\ (Result.page - 1) * Result.page_size >= Cardinality(Matching)
               => Result.items = <<>>

C4_Witness ==
    /\ Paged
    /\ Result.items = <<>>
    /\ Result.total_items > 0
    /\ Result.total_items < Len(movies)

\* C5, on one result: the items are in strictly ascending movie_id, and they
\* are the window (page - 1) * page_size + 1 .. page * page_size of the
\* matching movies taken in ascending movie_id, so that consecutive pages
\* concatenate to that sequence with no duplicate and no gap.
C5_Window ==
    Paged =>
        LET all == Ascending(Matching)
            from == (Result.page - 1) * Result.page_size + 1
            to == Min(Result.page * Result.page_size, Len(all))
        IN  /\ \A i, j \in 1..Len(Result.items) :
                   i < j => Result.items[i].movie_id < Result.items[j].movie_id
            /\ Result.items = SubSeq(all, from, to)

\* C5, on two consecutive calls: the same call with the same arguments
\* returns the same total_items and the same items.
C5_Repeat ==
    (call' = call /\ call'.op \in {"get_movies", "search_movies"})
        => paginated' = paginated

\* C5: both of the above, over every behaviour.
C5_Deterministic == [](C5_Window) /\ [][C5_Repeat]_vars

C5_Witness ==
    /\ Paged
    /\ Result.page = 2
    /\ Len(Result.items) > 0
    /\ Result.items[1].movie_id > 2

\* C6: search_movies(query, page, page_size, genre, year) returns the items
\* and total_items of list_movies(page, page_size, title = query, genre,
\* year).
C6_SearchIsList ==
    call.op = "search_movies" =>
        LET listed == list_movies(movies, repo_call.page, repo_call.page_size,
                                  req_title, req_genre, req_year)
        IN  /\ Result.items = listed.items
            /\ Result.total_items = listed.total_items

C6_Witness ==
    /\ call.op = "search_movies"
    /\ req_title # None /\ req_title[1] # <<>>
    /\ Result.total_items > 0
    /\ Result.total_items < Len(movies)

\* C7: a movie matches the genre filter g if and only if g is an element of
\* its genres list (not when g is merely a substring of one of its labels).
\* Stated for the non-empty filters, where the filter is applied at all.
C7_GenreMembership ==
    (FullListing /\ req_genre # None /\ req_genre[1] # <<>>) =>
        \A m \in Stored :
            Listed(m) <=> (TitleOk(m) /\ YearOk(m) /\ MemberGenre(m, req_genre[1]))

C9_Conjunction ==
    /\ Paged =>
        /\ \A k \in 1..Len(Result.items) : Result.items[k] \in Matching
        /\ Result.total_items = Cardinality(Matching)
    /\ FullListing => \A m \in Matching : Listed(m)
    /\ (FullListing /\ req_title = None /\ req_genre = None /\ req_year = None)
           => \A m \in Stored : Listed(m)

C9_Witness ==
    /\ FullListing
    /\ req_title # None /\ req_year # None
    /\ \E m \in Stored : Listed(m) /\ m.title # req_title[1]
    /\ \E m \in Stored : ~Listed(m) /\ TitleOk(m) /\ ~YearOk(m)
    /\ \E m \in Stored : ~Listed(m) /\ ~TitleOk(m) /\ YearOk(m)

\* C10: get_movie returns the stored movie whose movie_id is the requested
\* id, its four fields unchanged, when there is one, and nothing otherwise
\* (ids 0 and below included); GET /movies/{id} answers 404 exactly when
\* nothing is returned.
C10_GetMovie ==
    call.op = "get_movie" =>
        LET hits == {m \in Stored : m.movie_id = call.movie_id}
        IN  /\ hits # {} => (movie # None /\ movie[1] \in hits)
            /\ hits = {} => movie = None
            /\ status = 404 <=> movie = None
            /\ status = 200 <=> movie # None

C10_Witness ==
    /\ call.op = "get_movie"
    /\ call.movie_id > 0
    /\ \E m \in Stored : m.movie_id > call.movie_id
    /\ movie = None
    /\ status = 404

----------------------------------------------------------------------------
(* The state machine of the connection pool: the calls of DatabasePool in  *)
(* any order, from the state before the first initialize                   *)

InitPool ==
    /\ pool = None
    /\ pools_created = 0
    /\ pool_call = NoPoolCall
    /\ live = {}
    /\ threads = NoThreads
    /\ MoviesAtRest
    /\ ValidatorAtRest
    /\ HttpAtRest

\* DatabasePool.initialize(min_connections=sizes[1], max_connections=sizes[2])
Initialize(sizes, connect_ok) ==
    LET r == initialize(pool, pools_created, sizes[1], sizes[2], connect_ok)
    IN  /\ r.created <= MaxPools
        /\ pool' = r.pool
        /\ pools_created' = r.created
        /\ pool_call' = [NoPoolCall EXCEPT !.op = "initialize",
                                            !.outcome = r.outcome,
                                            !.minconn = sizes[1],
                                            !.maxconn = sizes[2]]
        /\ live' = IF r.created > pools_created
                   THEN live \cup {r.pool[1].id}
                   ELSE live
        /\ UNCHANGED <<movieVars, threads, repoVars, validatorVars, httpVars>>

\* DatabasePool.get_connection()
GetConnection ==
    LET r == get_connection(pool)
    IN  /\ pool' = r.pool
        /\ pool_call' = [NoPoolCall EXCEPT !.op = "get_connection",
                                            !.outcome = r.outcome,
                                            !.conn = r.conn]
        /\ UNCHANGED <<pools_created, live>>
        /\ UNCHANGED <<movieVars, threads, repoVars, validatorVars, httpVars>>

\* DatabasePool.return_connection(conn)
ReturnConnection(conn) ==
    LET r == return_connection(pool, conn)
    IN  /\ pool' = r.pool
        /\ pool_call' = [NoPoolCall EXCEPT !.op = "return_connection",
                                            !.outcome = r.outcome,
                                            !.arg = conn]
        /\ UNCHANGED <<pools_created, live>>
        /\ UNCHANGED <<movieVars, threads, repoVars, validatorVars, httpVars>>

\* DatabasePool.close(); closed_ok tells whether closeall() returns normally
Close(closed_ok) ==
    LET r == close(pool, closed_ok)
    IN  /\ pool' = r.pool
        /\ pool_call' = [NoPoolCall EXCEPT !.op = "close",
                                            !.outcome = r.outcome,
                                            !.closed_ok = closed_ok]
        /\ live' = IF pool # None /\ r.pool = None
                   THEN live \ {pool[1].id}
                   ELSE live
        /\ UNCHANGED pools_created
        /\ UNCHANGED <<movieVars, threads, repoVars, validatorVars, httpVars>>

NextPool ==
    \/ \E sizes \in PoolSizes, connect_ok \in BOOLEAN :
           Initialize(sizes, connect_ok)
    \/ GetConnection
    \/ \E conn \in ConnIds : ReturnConnection(conn)
    \/ \E closed_ok \in BOOLEAN : Close(closed_ok)

SpecPool == InitPool /\ [][NextPool]_vars

----------------------------------------------------------------------------
(* Properties of the connection pool *)

C16_NotInitialized ==
    [][(pool = None
        /\ pool_call'.op \in {"get_connection", "return_connection"})
          => /\ pool_call'.outcome = "RuntimeError"
             /\ pool_call'.conn = 0
             /\ pool' = None
             /\ pools_created' = pools_created]_vars

\* a connection was offered back after a shutdown
C16_Witness ==
    /\ pool = None
    /\ pools_created > 0
    /\ pool_call.op = "return_connection"
    /\ pool_call.outcome = "RuntimeError"

\* C17 (as stated): whenever close has returned, the pool is uninitialized,
\* also when closing the connections reported an error.
C17_Closed == pool_call.op = "close" => ~is_initialized(pool)

\* C17 (as stated): the initialize that follows a close constructs a fresh
\* pool with no connection handed out.
C17_Reinitialize ==
    (pool_call.op = "close" /\ pool_call'.op = "initialize"
     /\ pool_call'.outcome = "ok")
        => /\ pools_created' = pools_created + 1
           /\ pool' # None
           /\ pool'[1].id = pools_created'
           /\ pool'[1].used = {}
           /\ ~pool'[1].closed

C17_CloseUninitializes == [](C17_Closed) /\ [][C17_Reinitialize]_vars

----------------------------------------------------------------------------
(* The state machine of the repository over the pool: the pool is started *)
(* and closed, MoviesRepository() is constructed, the bulk loader upserts *)
(* rows, and the constructed repository serves calls                      *)

\* the rows the bulk loader writes: a second movie, and a new title for the
\* first
RepoRows == {Row(2), [Row(1) EXCEPT !.title = <<"N", "e", "w">>]}

\* the (min_connections, max_connections) pairs the pool is started with
RepoPoolSizes == {<<1, 1>>, <<1, 2>>}

\* the movie_id values the repository is asked for
RepoMovieIds == {1, 2}

\* No pool, no repository object; the table holds one row.
InitRepo ==
    /\ pool = None
    /\ pools_created = 0
    /\ pool_call = NoPoolCall
    /\ live = {}
    /\ threads = NoThreads
    /\ table = {Row(1)}
    /\ loaded = None
    /\ store_call = NoStoreCall
    /\ movies = <<>>
    /\ movies_dict = load_movies_dict({})
    /\ req_title = Some(<<"t", "o", "y">>)
    /\ req_genre = None
    /\ req_year = None
    /\ call = NoCall
    /\ repo_call = NoRepoCall
    /\ paginated = None
    /\ movie = None
    /\ status = 0
    /\ ValidatorAtRest
    /\ HttpAtRest

\* MoviesRepository(); db tells what the database does with the SELECT.  The
\* object exists only when __init__ returns.
Construct(db) ==
    LET r == construct(pool, db)
    IN  /\ pool' = r.pool
        /\ pool_call' = IF r.last = None THEN pool_call ELSE r.last[1]
        /\ store_call' = r.call
        /\ IF r.call.outcome = "ok"
           THEN /\ movies' = load_movies(table)
                /\ movies_dict' = load_movies_dict(table)
                /\ loaded' = Some(table)
           ELSE UNCHANGED <<movies, movies_dict, loaded>>
        /\ UNCHANGED <<table, pools_created, live>>
        /\ UNCHANGED <<req_title, req_genre, req_year,
                       call, repo_call, paginated, movie, status>>
        /\ UNCHANGED <<threads, validatorVars, httpVars>>

\* the bulk loader writes one row
Upsert(row) ==
    /\ table' = upsert(table, row)
    /\ UNCHANGED <<loaded, store_call>>
    /\ UNCHANGED <<movieVars, poolVars, threads, validatorVars, httpVars>>

NextRepo ==
    \/ \E sizes \in RepoPoolSizes, connect_ok \in BOOLEAN :
           Initialize(sizes, connect_ok)
    \/ GetConnection
    \/ \E conn \in ConnIds : ReturnConnection(conn)
    \/ \E closed_ok \in BOOLEAN : Close(closed_ok)
    \/ \E db \in DbOutcomes : Construct(db)
    \/ \E row \in RepoRows : Upsert(row)
    \/ loaded # None /\ GetMovies(1, 2)
    \/ loaded # None /\ SearchMovies(1, 2)
    \/ \E movie_id \in RepoMovieIds : loaded # None /\ GetMovie(movie_id)

SpecRepo == InitRepo /\ [][NextRepo]_vars

----------------------------------------------------------------------------
(* The state machine of the pool under concurrent callers: a thread may be *)
(* suspended between the test of cls._pool and the assignment to it; the  *)
(* other DatabasePool calls are single steps                              *)

InitRace ==
    /\ pool = None
    /\ pools_created = 0
    /\ pool_call = NoPoolCall
    /\ live = {}
    /\ threads = NoThreads
    /\ MoviesAtRest
    /\ ValidatorAtRest
    /\ HttpAtRest

\* thread t calls DatabasePool.initialize and tests cls._pool: the call
\* returns when a pool is there, and goes on to construct one otherwise
EnterInitialize(t) ==
    /\ threads[t] = "idle"
    /\ IF initialize_skips(pool)
       THEN /\ pool_call' = [NoPoolCall EXCEPT !.op = "initialize",
                                               !.outcome = "ok"]
            /\ UNCHANGED threads
       ELSE /\ threads' = [threads EXCEPT ![t] = "constructing"]
            /\ UNCHANGED pool_call
    /\ UNCHANGED <<pool, pools_created, live>>
    /\ UNCHANGED <<movieVars, repoVars, validatorVars, httpVars>>

\* thread t constructs its SimpleConnectionPool and binds it to cls._pool
AssignPool(t, sizes, connect_ok) ==
    LET r == initialize_assign(pool, pools_created, sizes[1], sizes[2],
                               connect_ok)
    IN  /\ threads[t] = "constructing"
        /\ r.created <= MaxPools
        /\ pool' = r.pool
        /\ pools_created' = r.created
        /\ live' = IF r.created > pools_created
                   THEN live \cup {r.pool[1].id}
                   ELSE live
        /\ pool_call' = [NoPoolCall EXCEPT !.op = "initialize",
                                            !.outcome = r.outcome,
                                            !.minconn = sizes[1],
                                            !.maxconn = sizes[2]]
        /\ threads' = [threads EXCEPT ![t] = "idle"]
        /\ UNCHANGED <<movieVars, repoVars, validatorVars, httpVars>>

NextRace ==
    \/ \E t \in Threads : EnterInitialize(t)
    \/ \E t \in Threads, sizes \in RepoPoolSizes, connect_ok \in BOOLEAN :
           AssignPool(t, sizes, connect_ok)
    \/ GetConnection
    \/ \E conn \in ConnIds : ReturnConnection(conn)
    \/ \E closed_ok \in BOOLEAN : Close(closed_ok)

SpecRace == InitRace /\ [][NextRace]_vars

----------------------------------------------------------------------------
(* The state machine of one validator instance: verify_token calls in any *)
(* order, each with what the identity provider would answer to a fetch    *)

InitValidator ==
    /\ validator \in {NewValidator(kind) : kind \in ValidatorKinds}
    /\ fetches = 0
    /\ fetch_ok = None
    /\ verify_call = NoVerifyCall
    /\ MoviesAtRest
    /\ PoolStarted
    /\ HttpAtRest

\* validator.verify_token(token); response is the provider's answer
VerifyToken(token, response) ==
    LET r == verify_token(validator, token, response)
        n == IF r.fetched = "no" THEN fetches ELSE fetches + 1
    IN  /\ n <= MaxFetches
        /\ validator' = r.validator
        /\ fetches' = n
        /\ fetch_ok' = IF r.fetched = "returned" THEN response ELSE fetch_ok
        /\ verify_call' = [op |-> "verify_token", token |-> token,
                           response |-> response,
                           outcome |-> r.outcome, fetched |-> r.fetched]
        /\ UNCHANGED <<movieVars, poolVars, threads, repoVars, httpVars>>

NextValidator ==
    \E token \in Tokens, response \in Responses : VerifyToken(token, response)

SpecValidator == InitValidator /\ [][NextValidator]_vars

----------------------------------------------------------------------------
(* Properties of the token validators *)

\* C12 (as stated): a token is accepted by the Keycloak and the Cognito
\* validator only if its azp claim or its aud claim equals the configured
\* client identifier, however valid its signature and expiry are.
C12_AudienceChecked ==
    (verify_call.outcome = "ok" /\ validator.kind \in {"keycloak", "cognito"})
        => \/ verify_call.token.azp = ClientId
           \/ verify_call.token.aud = ClientId

\* the JSON document is not the empty object
NonEmptyDocument(d) == d.keys # None \/ d.other

\* C13 (as stated): once a fetch on the instance has succeeded, no later
\* verify_token call on the instance fetches again.
C13_FetchedOnce == [][fetch_ok # None => fetches' = fetches]_vars

\* C13 (amended): once a fetch on the instance has succeeded with a
\* non-empty JWKS document, no later verify_token call on the instance
\* fetches again; and no call fetches more than once.
C13_KeyFetchedOnce ==
    [][/\ fetches' \in {fetches, fetches + 1}
       /\ (fetch_ok # None /\ NonEmptyDocument(fetch_ok[1]))
             => fetches' = fetches]_vars

\* a token was accepted by a call that did not fetch, after the one fetch
\* of the instance
C13_Witness ==
    /\ verify_call.op = "verify_token"
    /\ verify_call.outcome = "ok"
    /\ verify_call.fetched = "no"
    /\ fetches = 1
    /\ fetch_ok # None
    /\ NonEmptyDocument(fetch_ok[1])

\* the call has to get a key: the Cognito validator looks at the header of
\* the token first and fetches nothing for a token without a key id
NeedsKey(kind, token) ==
    kind = "cognito" => (token.wellformed /\ token.kid # "")

\* the cache of the validator is empty: nothing was stored, or, for the
\* Cognito validator, the empty document was
HoldsNoKey(v) ==
    \/ v.cache = None
    \/ v.kind = "cognito" /\ ~NonEmptyDocument(v.cache[1])

\* C21: a verify_token call whose key fetch fails does not accept the token
\* and leaves the cache of the validator empty.
C21_NothingCached ==
    verify_call.fetched = "raised"
        => /\ verify_call.outcome # "ok"
           /\ HoldsNoKey(validator)

\* C21: the call that follows a failed fetch fetches again, and when that
\* fetch brings the signing key of a good token the token is accepted.
C21_Retried ==
    (verify_call.fetched = "raised" /\ verify_call'.op = "verify_token")
        => /\ NeedsKey(validator.kind, verify_call'.token)
                  => verify_call'.fetched # "no"
           /\ (/\ verify_call'.token = Token("user")
               /\ verify_call'.response = Some(JwksDocument(Some(<<K1>>), FALSE)))
                  => /\ verify_call'.fetched = "returned"
                     /\ verify_call'.outcome = "ok"

C24_SubjectRequired == verify_call.outcome = "ok" => verify_call.token.sub

\* the keys of a fetched document, none when it has no "keys" member
KeysOf(d) == IF d.keys = None THEN <<>> ELSE d.keys[1]
\* an entry declared for signatures with an RSA key
Qualifies(key) == key.use = "sig" /\ key.kty = "RSA"
\* the first qualifying entry of a non-empty key set, else its first entry
Selected(keys) ==
    IF \E i \in 1..Len(keys) : Qualifies(keys[i])
    THEN keys[CHOOSE i \in 1..Len(keys) :
                  Qualifies(keys[i]) /\ \A j \in 1..(i - 1) : ~Qualifies(keys[j])]
    ELSE keys[1]

\* C25 (as stated): a Keycloak validator that fetched a key set has cached
\* its first RSA signing entry, or its first entry when none qualifies; an
\* empty key set makes the fetch fail with nothing cached.
C25_KeySelection ==
    (/\ validator.kind \in {"keycloak", "singleton"}
     /\ verify_call.fetched # "no"
     /\ verify_call.response # None)
        => LET keys == KeysOf(verify_call.response[1])
           IN  IF keys = <<>>
               THEN verify_call.fetched = "raised" /\ validator.cache = None
               ELSE validator.cache # None
                        => validator.cache[1] = Selected(keys)

\* C26: a token the Cognito validator accepts names, by the kid of its
\* header, an entry of the cached key set, is signed by that entry and has
\* token_use "access"; no other entry of the set is tried.
C26_KeyByKid ==
    (validator.kind = "cognito" /\ verify_call.outcome = "ok")
        => /\ verify_call.token.kid # ""
           /\ validator.cache # None
           /\ \E i \in 1..Len(KeysOf(validator.cache[1])) :
                  KeysOf(validator.cache[1])[i].kid = verify_call.token.kid
           /\ verify_call.token.sig = verify_call.token.kid
           /\ verify_call.token.token_use = "access"

\* a token was rejected whose kid names one entry of the cached key set
\* while another entry of the set is the key that signed it
C26_Witness ==
    /\ validator.kind = "cognito"
    /\ verify_call.op = "verify_token"
    /\ verify_call.outcome = "JWTError"
    /\ verify_call.token.kid # verify_call.token.sig
    /\ validator.cache # None
    /\ \E i, j \in 1..Len(KeysOf(validator.cache[1])) :
           /\ KeysOf(validator.cache[1])[i].kid = verify_call.token.kid
           /\ KeysOf(validator.cache[1])[j].kid = verify_call.token.sig

----------------------------------------------------------------------------
(* The state machine of the running application: requests in any order to *)
(* a process started with one of the configurations, and direct calls of  *)
(* the two API-key dependencies                                           *)

\* the page_size values of the requests to the two listing routes
RequestPageSizes == {2, MaxPageSize + 1}
\* the X-API-Key header of the requests: absent or the configured key
RequestApiKeys == {None, Some(Key)}
\* the answers of the identity provider to the requests' key fetches
RequestResponses == {None, Some(JwksDocument(Some(<<K1>>), FALSE))}

InitHttp ==
    /\ settings \in Configurations
    /\ http_fetches = 0
    /\ http_fetch_ok = FALSE
    /\ http_req = NoRequest
    /\ http_resp = NoResponse
    /\ MoviesAtRest
    /\ PoolStarted
    /\ ValidatorAtRest

\* one GET request; page_size is 0 for the routes that take none
Request(endpoint, page_size, x_api_key, authorization, response) ==
    LET a == handle_request(settings, movies, movies_dict, endpoint,
                            page_size, authorization, response)
        n == IF a.fetched = "no" THEN http_fetches ELSE http_fetches + 1
    IN  /\ (page_size = 0) <=> (endpoint \in {"movie", "health"})
        /\ n <= MaxFetches
        /\ http_req' = [op |-> "request", endpoint |-> endpoint,
                        x_api_key |-> x_api_key,
                        authorization |-> authorization,
                        page_size |-> page_size]
        /\ http_resp' = a
        /\ http_fetches' = n
        /\ http_fetch_ok' = (http_fetch_ok \/ a.fetched = "returned")
        /\ UNCHANGED settings
        /\ UNCHANGED <<movieVars, poolVars, threads, repoVars, validatorVars>>

\* a call of the dependency verify_api_key
VerifyApiKey(x_api_key) ==
    /\ http_req' = [NoRequest EXCEPT !.op = "verify_api_key",
                                     !.x_api_key = x_api_key]
    /\ http_resp' = verify_api_key(settings, x_api_key)
    /\ UNCHANGED <<settings, http_fetches, http_fetch_ok>>
    /\ UNCHANGED <<movieVars, poolVars, threads, repoVars, validatorVars>>

\* a call of validate_api_key with the configured key as required_key
ValidateApiKey(x_api_key) ==
    /\ http_req' = [NoRequest EXCEPT !.op = "validate_api_key",
                                     !.x_api_key = x_api_key]
    /\ http_resp' = validate_api_key(x_api_key, settings.api_key)
    /\ UNCHANGED <<settings, http_fetches, http_fetch_ok>>
    /\ UNCHANGED <<movieVars, poolVars, threads, repoVars, validatorVars>>

NextHttp ==
    \/ \E endpoint \in Endpoints, page_size \in {0} \cup RequestPageSizes,
          x_api_key \in RequestApiKeys, authorization \in Authorizations,
          response \in RequestResponses :
           Request(endpoint, page_size, x_api_key, authorization, response)
    \/ \E x_api_key \in XApiKeys : VerifyApiKey(x_api_key)
    \/ \E x_api_key \in XApiKeys : ValidateApiKey(x_api_key)

SpecHttp == InitHttp /\ [][NextHttp]_vars

----------------------------------------------------------------------------
(* Properties of authentication and of the HTTP boundary *)

Requested == http_req.op = "request"
Protected == Requested /\ http_req.endpoint \in {"movies", "search", "movie"}
Unauthorized(resp) == resp.status = HTTP_401_UNAUTHORIZED

\* the request carries the configured static API key
KeyPresented ==
    /\ settings.api_key \notin {None, Some(<<>>)}
    /\ http_req.x_api_key = settings.api_key

\* C11 (as stated): with authentication enabled, a request to one of the
\* three movie routes is admitted if and only if it carries the configured
\* API key in X-API-Key or a bearer token the validator accepts; the health
\* check is served whatever the request carries.
C11_EitherCredential ==
    /\ (Protected /\ settings.auth_enabled)
          => (~Unauthorized(http_resp)
                 <=> (KeyPresented \/ http_resp.token_accepted))
    /\ (Requested /\ http_req.endpoint = "health")
          => http_resp.status = HTTP_200_OK

\* the response reports a failed authentication
AuthFailure(resp) ==
    resp.status \in {HTTP_401_UNAUTHORIZED, HTTP_403_FORBIDDEN}

\* C14 (as stated): any two authentication failures, whatever check failed,
\* give the same status and the same detail.
C14_UniformFailure ==
    [][(AuthFailure(http_resp) /\ AuthFailure(http_resp'))
          => /\ http_resp'.status = http_resp.status
             /\ http_resp'.detail = http_resp.detail]_vars

\* C18: verify_api_key lets the call through exactly when no key is
\* configured (None or the empty string) or the X-API-Key header is the
\* configured key, character for character; every other call is answered
\* with 401.
C18_ApiKey ==
    http_req.op = "verify_api_key"
        => /\ (http_resp.status = 0)
                 <=> \/ settings.api_key \in {None, Some(<<>>)}
                     \/ http_req.x_api_key = settings.api_key
           /\ http_resp.status \in {0, HTTP_401_UNAUTHORIZED}

\* a header that differs from the configured key only in letter case or
\* only by a trailing blank was rejected
C18_Witness ==
    /\ http_req.op = "verify_api_key"
    /\ settings.api_key = Some(Key)
    /\ http_req.x_api_key \in {Some(lower(Key)), Some(Key \o <<" ">>)}
    /\ http_resp.status = HTTP_401_UNAUTHORIZED

\* C19 (as stated): an admitted request to GET /movies or GET /movies/search
\* with a page_size above 100 succeeds and reports page_size 100.
C19_ClampedAtRoute ==
    (/\ Requested
     /\ http_req.endpoint \in {"movies", "search"}
     /\ http_req.page_size > MaxPageSize
     /\ ~Unauthorized(http_resp))
        => /\ http_resp.status = HTTP_200_OK
           /\ http_resp.page_size = MaxPageSize

\* C20 (as stated): once a key fetch of the process has succeeded, no later
\* request fetches the key again.
C20_ProcessFetchesOnce ==
    [][http_fetch_ok => http_fetches' = http_fetches]_vars

\* the identity provider is not a known one, or Cognito has no user pool id
Misconfigured ==
    /\ settings.auth_enabled
    /\ \/ lower(settings.auth_provider) \notin
              {<<"k", "e", "y", "c", "l", "o", "a", "k">>,
               <<"c", "o", "g", "n", "i", "t", "o">>}
       \/ /\ lower(settings.auth_provider) = <<"c", "o", "g", "n", "i", "t", "o">>
          /\ settings.cognito_user_pool_id \in {None, Some(<<>>)}

\* C27 (as stated): a process whose identity provider is misconfigured
\* serves no request to the movie routes; the configuration error stops the
\* start of the process and is no outcome of a request.
C27_FatalAtStartup == Misconfigured => ~Protected

----------------------------------------------------------------------------
(* Properties of the repository over the pool *)

\* the last repository call took a connection from the pool
Acquired == store_call.acquired > 0

\* C23: every connection a repository call takes from the pool is given
\* back exactly once before the call ends, whether the query succeeds, raises
\* a database error or a row cannot be mapped; the call holds no connection
\* afterwards and leaves the connections handed out by the pool as they
\* were; a database error reaches the caller after a single query.
C23_Released ==
    /\ store_call.released = store_call.acquired
    /\ store_call.held = {}
    /\ (Acquired /\ store_call.db # "ok")
           => /\ store_call.outcome = store_call.db
              /\ store_call.queries = 1

C23_ConnectionsReturned ==
    /\ [](C23_Released)
    /\ [][store_call' # store_call
              => used_connections(pool') = used_connections(pool)]_vars

\* a construction whose query raised a database error, while another
\* connection of the pool was handed out
C23_Witness ==
    /\ store_call.op = "construct"
    /\ store_call.db = "psycopg2.Error"
    /\ store_call.outcome = "psycopg2.Error"
    /\ store_call.acquired = 1
    /\ store_call.released = 1
    /\ used_connections(pool) # {}

\* the repository calls that serve requests
ServingCalls == {"get_movie_by_id", "list_movies", "search_movies"}

\* C22 (as stated): each serving call of the repository acquires exactly one
\* connection from the pool, runs one or two queries on it, and releases it
\* before returning.
C22_ConnectionPerCall ==
    store_call.op \in ServingCalls
        => /\ store_call.acquired = 1
           /\ store_call.queries \in {1, 2}
           /\ store_call.released = 1
           /\ store_call.held = {}

\* C28 (as stated): constructing a MoviesRepository while the pool is not
\* initialized fails with RuntimeError, acquires no connection and leaves no
\* repository; a successful construction acquires no connection and runs no
\* query.
C28_NoLoad ==
    store_call.op = "construct"
        => /\ store_call.outcome = "RuntimeError" => store_call.acquired = 0
           /\ store_call.outcome = "ok"
                  => store_call.acquired = 0 /\ store_call.queries = 0

C28_NotInitialized ==
    (pool = None /\ store_call' # store_call /\ store_call'.op = "construct")
        => /\ store_call'.outcome = "RuntimeError"
           /\ loaded' = loaded
           /\ pool' = None

C28_ConstructionChecksOnly ==
    [](C28_NoLoad) /\ [][C28_NotInitialized]_vars

\* the movies of the rows the repository fetched when it was constructed
Snapshot == {row_to_movie(r) : r \in loaded[1]}

\* every listed movie is indexed under its own movie_id, and every indexed
\* movie is listed
Consistent ==
    /\ \A i \in 1..Len(movies) :
           /\ movies[i].movie_id \in DOMAIN movies_dict
           /\ movies_dict[movies[i].movie_id] = movies[i]
    /\ \A k \in DOMAIN movies_dict :
           /\ movies_dict[k].movie_id = k
           /\ \E i \in 1..Len(movies) : movies[i] = movies_dict[k]

\* the list holds the movies of the snapshot, and so do the results of a
\* serving call
FromSnapshot ==
    loaded # None
        => /\ {movies[i] : i \in 1..Len(movies)} = Snapshot
           /\ store_call.op \in ServingCalls
                  => /\ movie # None
                            => movie[1] \in {movie_read(m) : m \in Snapshot}
                     /\ (call.op = "get_movie" /\ movie = None)
                            => \A m \in Snapshot : m.movie_id # call.movie_id
                     /\ paginated # None
                            => \A k \in 1..Len(paginated[1].items) :
                                   paginated[1].items[k]
                                       \in {movie_read(m) : m \in Snapshot}

C30_SinglePool ==
    /\ Cardinality(live) <= 1
    /\ live = IF pool = None THEN {} ELSE {pool[1].id}

====
